---- MODULE Spec2Model ----
(***************************************************************************)
(* Model of scripts/lint_verweise.py: the cross-reference validator of the *)
(* Hamann letter edition.  A run of validate_references is a state machine *)
(* whose steps are the numbered sections of the function; the XML files    *)
(* are element trees held in document order.                               *)
(***************************************************************************)
EXTENDS Integers, Sequences, FiniteSets, TLC

VARIABLES fs, extra_registers, pc, idx, person_refs, location_refs, hand_refs,
          app_refs, edit_refs, letter_refs, errors, global_kommentar_ids,
          global_subsection_ids, letter_pages_brief, letter_pages_trad,
          letter_pages, output, exit_code

vars == <<fs, extra_registers, pc, idx, person_refs, location_refs, hand_refs,
          app_refs, edit_refs, letter_refs, errors, global_kommentar_ids,
          global_subsection_ids, letter_pages_brief, letter_pages_trad,
          letter_pages, output, exit_code>>

-----------------------------------------------------------------------------
(* Element trees.  A document is the sequence of its elements in document  *)
(* order (the root first); an element carries its tag, its depth and the   *)
(* attributes the validator reads.  elem.get(a) of an absent attribute is  *)
(* None, a value different from every string, the empty string included.   *)

None == "<None>"

Truthy(v) == v # None /\ v # ""

\* str(v) as an f-string renders it
Str(v) == IF v = None THEN "None" ELSE v

Elem(tag, depth) ==
    [tag |-> tag, depth |-> depth, letter |-> None, page |-> None,
     line |-> None, index |-> None, ref |-> None, subref |-> None, id |-> None]

Root == Elem("opus", 0)

\* An XML tree: one root, and each element at most one level below its predecessor.
WellFormed(doc) ==
    /\ Len(doc) >= 1
    /\ doc[1].depth = 0
    /\ \A k \in 2..Len(doc) : doc[k].depth >= 1 /\ doc[k].depth <= doc[k-1].depth + 1

IsDescendant(doc, i, j) ==
    j > i /\ \A k \in (i+1)..j : doc[k].depth > doc[i].depth

Indices(doc) == [k \in 1..Len(doc) |-> k]

\* elem.findall(".//tag"): the descendants of element i with that tag, in document order
FindAll(doc, i, tag) ==
    SelectSeq(Indices(doc), LAMBDA j : IsDescendant(doc, i, j) /\ doc[j].tag = tag)

\* elem.iter(): the element itself, then its descendants, in document order
Iter(doc, i) ==
    SelectSeq(Indices(doc), LAMBDA j : j = i \/ IsDescendant(doc, i, j))

\* lxml's sourceline: every element of a parsed file is on a line of its own
SourceLine(doc, j) == j

get_line_number(doc, j) ==
    IF SourceLine(doc, j) # 0 THEN SourceLine(doc, j) ELSE "Unknown"

Err(file, line, message) == [file |-> file, line |-> line, message |-> message]

\* the concatenation of Op(s[1]), ..., Op(s[n])
ConcatMap(Op(_), s) ==
    LET f[k \in 0..Len(s)] == IF k = 0 THEN <<>> ELSE f[k-1] \o Op(s[k])
    IN  f[Len(s)]

Range(s) == {s[k] : k \in 1..Len(s)}

-----------------------------------------------------------------------------
(* The location map letter -> page -> set of lines (a defaultdict of       *)
(* defaultdicts of sets): a function whose domain is the keys present.     *)

EmptyMap == [k \in {} |-> {}]

PagesOf(m, L) == IF L \in DOMAIN m THEN m[L] ELSE EmptyMap

LinesOf(m, L, P) == IF P \in DOMAIN PagesOf(m, L) THEN PagesOf(m, L)[P] ELSE {}

\* m[L][P].update(lines): both keys are created when missing
Update(m, L, P, lines) ==
    LET newPages == [q \in DOMAIN PagesOf(m, L) \cup {P} |->
                        IF q = P THEN LinesOf(m, L, P) \cup lines ELSE PagesOf(m, L)[q]]
    IN  [k \in DOMAIN m \cup {L} |-> IF k = L THEN newPages ELSE m[k]]

\* the (letter, page, line) triples a map holds
Triples(m) ==
    UNION {UNION {{<<L, P, l>> : l \in m[L][P]} : P \in DOMAIN m[L]} : L \in DOMAIN m}

\* a buggy scan that forgets the page when a new <letterText> begins
BuildBriefState_resetting_page(doc) ==
    LET docElems == FindAll(doc, 1, "document")
        start == IF docElems = <<>> THEN 1 ELSE Head(docElems)
        walk == Iter(doc, start)
        f[k \in 0..Len(walk)] ==
            IF k = 0
            THEN [current_letter |-> None, current_page |-> None, map |-> EmptyMap]
            ELSE LET st == f[k-1]
                     elem == doc[walk[k]]
                 IN  IF elem.tag = "letterText"
                     THEN [st EXCEPT !.current_letter = elem.letter,
                                     !.current_page = None]
                     ELSE IF elem.tag = "page"
                     THEN IF Truthy(elem.index)
                          THEN [st EXCEPT !.current_page = elem.index]
                          ELSE st
                     ELSE IF elem.tag = "line"
                     THEN IF Truthy(st.current_letter) /\ Truthy(st.current_page)
                             /\ Truthy(elem.index)
                          THEN [st EXCEPT !.map = Update(st.map, st.current_letter,
                                                         st.current_page, {elem.index})]
                          ELSE st
                     ELSE st
    IN  f[Len(walk)]

\* build_letter_page_line_map_brief
BuildBriefState(doc) ==
    LET docElems == FindAll(doc, 1, "document")
        start == IF docElems = <<>> THEN 1 ELSE Head(docElems)
        walk == Iter(doc, start)
        f[k \in 0..Len(walk)] ==
            IF k = 0
            THEN [current_letter |-> None, current_page |-> None, map |-> EmptyMap]
            ELSE LET st == f[k-1]
                     elem == doc[walk[k]]
                 IN  IF elem.tag = "letterText"
                     THEN [st EXCEPT !.current_letter = elem.letter]
                     ELSE IF elem.tag = "page"
                     THEN IF Truthy(elem.index)
                          THEN [st EXCEPT !.current_page = elem.index]
                          ELSE st
                     ELSE IF elem.tag = "line"
                     THEN IF Truthy(st.current_letter) /\ Truthy(st.current_page)
                             /\ Truthy(elem.index)
                          THEN [st EXCEPT !.map = Update(st.map, st.current_letter,
                                                         st.current_page, {elem.index})]
                          ELSE st
                     ELSE st
    IN  f[Len(walk)]

build_letter_page_line_map_brief(doc) == BuildBriefState(doc).map

\* the scan of one <letterTradition> block, added to the map so far
ScanTradition(doc, lt, map) ==
    LET walk == Iter(doc, lt)
        f[k \in 0..Len(walk)] ==
            IF k = 0
            THEN [current_page |-> None, map |-> map]
            ELSE LET st == f[k-1]
                     elem == doc[walk[k]]
                 IN  IF walk[k] = lt
                     THEN st
                     ELSE IF elem.tag = "page"
                     THEN IF Truthy(elem.index)
                          THEN [st EXCEPT !.current_page = elem.index]
                          ELSE st
                     ELSE IF elem.tag = "line"
                     THEN IF Truthy(st.current_page) /\ Truthy(elem.index)
                          THEN [st EXCEPT !.map = Update(st.map, doc[lt].letter,
                                                         st.current_page, {elem.index})]
                          ELSE st
                     ELSE st
    IN  f[Len(walk)].map

\* build_letter_page_line_map_trad
build_letter_page_line_map_trad(doc) ==
    LET blocks == FindAll(doc, 1, "letterTradition")
        f[k \in 0..Len(blocks)] ==
            IF k = 0 THEN EmptyMap
            ELSE IF ~Truthy(doc[blocks[k]].letter) THEN f[k-1]
            ELSE ScanTradition(doc, blocks[k], f[k-1])
    IN  f[Len(blocks)]

\* the (letter, page) items of a map
Items(m) == UNION {{<<L, P>> : P \in DOMAIN m[L]} : L \in DOMAIN m}

\* the orders in which the nested items() loops may visit them: each item once,
\* the pages of one letter together; which order it is depends on the dictionary
ItemOrders(m) ==
    {s \in [1..Cardinality(Items(m)) -> Items(m)] :
        /\ \A i, j \in DOMAIN s : i # j => s[i] # s[j]
        /\ \A i, j, k \in DOMAIN s : (i < j /\ j < k /\ s[i][1] = s[k][1]) => s[j][1] = s[i][1]}

\* map_a[letter_id][page_id].update(line_set) for the items in the order visited
MergeItems(map_a, map_b, order) ==
    LET f[k \in 0..Len(order)] ==
            IF k = 0 THEN map_a
            ELSE Update(f[k-1], order[k][1], order[k][2], map_b[order[k][1]][order[k][2]])
    IN  f[Len(order)]

\* a buggy merge that replaces the lines of a shared (letter, page) instead of adding
merge_page_line_maps_overwrite(map_a, map_b, order) ==
    [L \in DOMAIN map_a \cup DOMAIN map_b |->
        [P \in DOMAIN PagesOf(map_a, L) \cup DOMAIN PagesOf(map_b, L) |->
            IF P \in DOMAIN PagesOf(map_b, L) THEN map_b[L][P] ELSE map_a[L][P]]]

\* a buggy merge that returns from inside the loop, after the first item
merge_page_line_maps_returning_early(map_a, map_b, order) ==
    IF order = <<>> THEN map_a ELSE MergeItems(map_a, map_b, <<Head(order)>>)

\* merge_page_line_maps: map_b's line sets are added to map_a, which is returned
merge_page_line_maps(map_a, map_b, order) == MergeItems(map_a, map_b, order)

-----------------------------------------------------------------------------
(* <intlink> check                                                         *)

\* a buggy page branch that demands a line: an absent line is looked up like any other
IntlinkPageBranch_line_required(doc, j, file_path, pages) ==
    LET line_no == get_line_number(doc, j)
        letter_id == doc[j].letter
        page_id == doc[j].page
        line_id == doc[j].line
    IN  IF page_id \notin DOMAIN pages[letter_id]
        THEN <<Err(file_path, line_no,
                   <<"Invalid page=", page_id, " for letter=", letter_id, " in intlink">>)>>
        ELSE IF line_id \notin pages[letter_id][page_id]
        THEN <<Err(file_path, line_no,
                   <<"Invalid line=", Str(line_id), " for letter=", letter_id,
                     ", page=", page_id, " in intlink">>)>>
        ELSE <<>>

\* the branch "if page_id:" of validate_intlinks
IntlinkPageBranch(doc, j, file_path, pages) ==
    LET line_no == get_line_number(doc, j)
        letter_id == doc[j].letter
        page_id == doc[j].page
        line_id == doc[j].line
    IN  IF page_id \notin DOMAIN pages[letter_id]
        THEN <<Err(file_path, line_no,
                   <<"Invalid page=", page_id, " for letter=", letter_id, " in intlink">>)>>
        ELSE IF Truthy(line_id) /\ line_id \notin pages[letter_id][page_id]
        THEN <<Err(file_path, line_no,
                   <<"Invalid line=", line_id, " for letter=", letter_id,
                     ", page=", page_id, " in intlink">>)>>
        ELSE <<>>

\* a buggy no-page branch that accepts a line without a page
IntlinkNoPageBranch_accepting(doc, j, file_path) == <<>>

\* the branch "else: # no page" of validate_intlinks
IntlinkNoPageBranch(doc, j, file_path) ==
    IF Truthy(doc[j].line)
    THEN <<Err(file_path, get_line_number(doc, j),
               <<"intlink has line=", doc[j].line, " but no page=? for letter=",
                 doc[j].letter>>)>>
    ELSE <<>>

\* the body of the loop of validate_intlinks
IntlinkErrors(doc, j, file_path, pages, letters) ==
    LET line_no == get_line_number(doc, j)
        letter_id == doc[j].letter
    IN  IF ~Truthy(letter_id) \/ letter_id \notin letters
        THEN <<Err(file_path, line_no, <<"Invalid intlink letter=", Str(letter_id)>>)>>
        ELSE IF letter_id \notin DOMAIN pages
        THEN <<Err(file_path, line_no,
                   <<"No pages known for letter=", letter_id, " in intlink">>)>>
        ELSE IF Truthy(doc[j].page)
        THEN IntlinkPageBranch(doc, j, file_path, pages)
        ELSE IntlinkNoPageBranch(doc, j, file_path)

validate_intlinks(doc, file_path, pages, letters) ==
    ConcatMap(LAMBDA j : IntlinkErrors(doc, j, file_path, pages, letters),
              FindAll(doc, 1, "intlink"))

-----------------------------------------------------------------------------
(* <kommentar> and <subsection> check                                      *)

MissingIdMsg(tag) == <<"<", tag, "> missing @id">>
DupLocalMsg(tag, id) == <<"Duplicate <", tag, " id='", id, "'> in this file">>
DupGlobalMsg(tag, id) == <<"Duplicate <", tag, " id='", id, "'> across multiple registers">>
MissingLemmaMsg(tag, id) == <<"<", tag, " id='", id, "'> missing <lemma> child">>

\* a buggy loop that skips an element without <lemma> before registering it
GatherTag_skipping_lemmaless(doc, file_path, tag, global_ids) ==
    LET elems == FindAll(doc, 1, tag)
        f[k \in 0..Len(elems)] ==
            IF k = 0
            THEN [local_ids |-> {}, global_ids |-> global_ids, errors |-> <<>>]
            ELSE LET st == f[k-1]
                     j == elems[k]
                     id == doc[j].id
                     ln == get_line_number(doc, j)
                 IN  IF ~Truthy(id)
                     THEN [st EXCEPT !.errors = @ \o <<Err(file_path, ln, MissingIdMsg(tag))>>]
                     ELSE IF FindAll(doc, j, "lemma") = <<>>
                     THEN [st EXCEPT !.errors =
                              @ \o <<Err(file_path, ln, MissingLemmaMsg(tag, id))>>]
                     ELSE [local_ids |-> st.local_ids \cup {id},
                           global_ids |-> st.global_ids \cup {id},
                           errors |-> st.errors
                              \o (IF id \in st.local_ids
                                  THEN <<Err(file_path, ln, DupLocalMsg(tag, id))>>
                                  ELSE <<>>)
                              \o (IF id \in st.global_ids
                                  THEN <<Err(file_path, ln, DupGlobalMsg(tag, id))>>
                                  ELSE <<>>)]
    IN  f[Len(elems)]

\* a buggy loop body that looks at the shared pool only when the identifier is new
\* to this file (elif instead of if)
GatherTag_global_only_if_new(doc, file_path, tag, global_ids) ==
    LET elems == FindAll(doc, 1, tag)
        f[k \in 0..Len(elems)] ==
            IF k = 0
            THEN [local_ids |-> {}, global_ids |-> global_ids, errors |-> <<>>]
            ELSE LET st == f[k-1]
                     j == elems[k]
                     id == doc[j].id
                     ln == get_line_number(doc, j)
                 IN  IF ~Truthy(id)
                     THEN [st EXCEPT !.errors = @ \o <<Err(file_path, ln, MissingIdMsg(tag))>>]
                     ELSE [local_ids |-> st.local_ids \cup {id},
                           global_ids |-> st.global_ids \cup {id},
                           errors |-> st.errors
                              \o (IF id \in st.local_ids
                                  THEN <<Err(file_path, ln, DupLocalMsg(tag, id))>>
                                  ELSE IF id \in st.global_ids
                                  THEN <<Err(file_path, ln, DupGlobalMsg(tag, id))>>
                                  ELSE <<>>)
                              \o (IF FindAll(doc, j, "lemma") = <<>>
                                  THEN <<Err(file_path, ln, MissingLemmaMsg(tag, id))>>
                                  ELSE <<>>)]
    IN  f[Len(elems)]

\* one of the two loops of gather_commentaries_and_subsections
GatherTag(doc, file_path, tag, global_ids) ==
    LET elems == FindAll(doc, 1, tag)
        f[k \in 0..Len(elems)] ==
            IF k = 0
            THEN [local_ids |-> {}, global_ids |-> global_ids, errors |-> <<>>]
            ELSE LET st == f[k-1]
                     j == elems[k]
                     id == doc[j].id
                     ln == get_line_number(doc, j)
                 IN  IF ~Truthy(id)
                     THEN [st EXCEPT !.errors = @ \o <<Err(file_path, ln, MissingIdMsg(tag))>>]
                     ELSE [local_ids |-> st.local_ids \cup {id},
                           global_ids |-> st.global_ids \cup {id},
                           errors |-> st.errors
                              \o (IF id \in st.local_ids
                                  THEN <<Err(file_path, ln, DupLocalMsg(tag, id))>>
                                  ELSE <<>>)
                              \o (IF id \in st.global_ids
                                  THEN <<Err(file_path, ln, DupGlobalMsg(tag, id))>>
                                  ELSE <<>>)
                              \o (IF FindAll(doc, j, "lemma") = <<>>
                                  THEN <<Err(file_path, ln, MissingLemmaMsg(tag, id))>>
                                  ELSE <<>>)]
    IN  f[Len(elems)]

\* a buggy gathering whose pools are rebuilt per register instead of shared
gather_not_pooling(doc, file_path, kommentar_ids, subsection_ids) ==
    LET kom == GatherTag(doc, file_path, "kommentar", {})
        sub == GatherTag(doc, file_path, "subsection", {})
    IN  [errors |-> kom.errors \o sub.errors,
         global_kommentar_ids |-> kommentar_ids \cup kom.global_ids,
         global_subsection_ids |-> subsection_ids \cup sub.global_ids]

gather_commentaries_and_subsections(doc, file_path, kommentar_ids, subsection_ids) ==
    LET kom == GatherTag(doc, file_path, "kommentar", kommentar_ids)
        sub == GatherTag(doc, file_path, "subsection", subsection_ids)
    IN  [errors |-> kom.errors \o sub.errors,
         global_kommentar_ids |-> kom.global_ids,
         global_subsection_ids |-> sub.global_ids]

-----------------------------------------------------------------------------
(* <link ref="..." subref="..."> check                                     *)

InvalidRefMsg(refval) ==
    <<"Invalid <link ref='", refval, "'> (not in komentar/subsection IDs)">>
InvalidSubrefMsg(subrefval) ==
    <<"Invalid <link subref='", subrefval, "'> (not in <subsection> IDs)">>

\* a buggy check that lets a subref resolve in the commentary pool as a ref does
LinkErrors_shared_subref(doc, j, file_path, kommentar_ids, subsection_ids) ==
    LET ln == get_line_number(doc, j)
        refval == doc[j].ref
        subrefval == doc[j].subref
    IN  (IF Truthy(refval) /\ refval \notin kommentar_ids /\ refval \notin subsection_ids
         THEN <<Err(file_path, ln, InvalidRefMsg(refval))>>
         ELSE <<>>)
        \o (IF Truthy(subrefval) /\ subrefval \notin kommentar_ids
               /\ subrefval \notin subsection_ids
            THEN <<Err(file_path, ln, InvalidSubrefMsg(subrefval))>>
            ELSE <<>>)

\* the body of the loop of validate_links_for_commentary
LinkErrors(doc, j, file_path, kommentar_ids, subsection_ids) ==
    LET ln == get_line_number(doc, j)
        refval == doc[j].ref
        subrefval == doc[j].subref
    IN  (IF Truthy(refval) /\ refval \notin kommentar_ids /\ refval \notin subsection_ids
         THEN <<Err(file_path, ln, InvalidRefMsg(refval))>>
         ELSE <<>>)
        \o (IF Truthy(subrefval) /\ subrefval \notin subsection_ids
            THEN <<Err(file_path, ln, InvalidSubrefMsg(subrefval))>>
            ELSE <<>>)

validate_links_for_commentary(doc, file_path, kommentar_ids, subsection_ids) ==
    ConcatMap(LAMBDA j : LinkErrors(doc, j, file_path, kommentar_ids, subsection_ids),
              FindAll(doc, 1, "link"))

-----------------------------------------------------------------------------
(* The checks written inline in validate_references                        *)

\* {e.get(attr) for e in root.findall(".//tag")}, attr being index or letter
IndexSet(doc, tag) == {doc[j].index : j \in Range(FindAll(doc, 1, tag))}
LetterSet(doc, tag) == {doc[j].letter : j \in Range(FindAll(doc, 1, tag))}

\* the loop over the elements with one tag below a block, each ref tested against a set
RefErrors(doc, block, tag, file_path, known, what, where) ==
    ConcatMap(LAMBDA j :
                 IF Truthy(doc[j].ref) /\ doc[j].ref \notin known
                 THEN <<Err(file_path, get_line_number(doc, j),
                            <<what, doc[j].ref, where, Str(doc[block].letter)>>)>>
                 ELSE <<>>,
              FindAll(doc, block, tag))

\* a buggy meta check that looks the location up among the persons
MetaErrors_location_among_persons(doc, file_path, persons, locations) ==
    ConcatMap(LAMBDA ld :
                 RefErrors(doc, ld, "sender", file_path, persons,
                           "Invalid sender ref: ", " in letter=")
                 \o RefErrors(doc, ld, "receiver", file_path, persons,
                              "Invalid receiver ref: ", " in letter=")
                 \o (LET locs == FindAll(doc, ld, "location")
                     IN  IF locs # <<>> /\ Truthy(doc[Head(locs)].ref)
                            /\ doc[Head(locs)].ref \notin persons
                         THEN <<Err(file_path, get_line_number(doc, Head(locs)),
                                    <<"Invalid location ref: ", doc[Head(locs)].ref,
                                      " in letter=", Str(doc[ld].letter)>>)>>
                         ELSE <<>>),
              FindAll(doc, 1, "letterDesc"))

\* 5) meta.xml: sender, receiver and the first location of each letterDesc
MetaErrors(doc, file_path, persons, locations) ==
    ConcatMap(LAMBDA ld :
                 RefErrors(doc, ld, "sender", file_path, persons,
                           "Invalid sender ref: ", " in letter=")
                 \o RefErrors(doc, ld, "receiver", file_path, persons,
                              "Invalid receiver ref: ", " in letter=")
                 \o (LET locs == FindAll(doc, ld, "location")
                     IN  IF locs # <<>> /\ Truthy(doc[Head(locs)].ref)
                            /\ doc[Head(locs)].ref \notin locations
                         THEN <<Err(file_path, get_line_number(doc, Head(locs)),
                                    <<"Invalid location ref: ", doc[Head(locs)].ref,
                                      " in letter=", Str(doc[ld].letter)>>)>>
                         ELSE <<>>),
              FindAll(doc, 1, "letterDesc"))

\* 6) briefe.xml: the letter, the hands and the edits of each letterText
BriefeErrors(doc, file_path, letters, hands, edits) ==
    ConcatMap(LAMBDA lt :
                 (IF Truthy(doc[lt].letter) /\ doc[lt].letter \notin letters
                  THEN <<Err(file_path, get_line_number(doc, lt),
                             <<"Invalid letter reference: ", doc[lt].letter,
                               " in briefe.xml">>)>>
                  ELSE <<>>)
                 \o RefErrors(doc, lt, "hand", file_path, hands,
                              "Invalid hand ref: ", " in letter ")
                 \o RefErrors(doc, lt, "edit", file_path, edits,
                              "Invalid edit ref: ", " in letter "),
              FindAll(doc, 1, "letterText"))

\* a buggy tradition check that looks the apps up among the hands
TraditionsErrors_apps_among_hands(doc, file_path, letters, apps, hands) ==
    ConcatMap(LAMBDA tr :
                 (IF Truthy(doc[tr].letter) /\ doc[tr].letter \notin letters
                  THEN <<Err(file_path, get_line_number(doc, tr),
                             <<"Invalid letterTradition reference: ", doc[tr].letter>>)>>
                  ELSE <<>>)
                 \o RefErrors(doc, tr, "app", file_path, hands,
                              "Invalid app ref: ", " in letterTradition ")
                 \o RefErrors(doc, tr, "hand", file_path, hands,
                              "Invalid hand ref: ", " in letterTradition "),
              FindAll(doc, 1, "letterTradition"))

\* 7) traditions.xml: the letter, the apps and the hands of each letterTradition
TraditionsErrors(doc, file_path, letters, apps, hands) ==
    ConcatMap(LAMBDA tr :
                 (IF Truthy(doc[tr].letter) /\ doc[tr].letter \notin letters
                  THEN <<Err(file_path, get_line_number(doc, tr),
                             <<"Invalid letterTradition reference: ", doc[tr].letter>>)>>
                  ELSE <<>>)
                 \o RefErrors(doc, tr, "app", file_path, apps,
                              "Invalid app ref: ", " in letterTradition ")
                 \o RefErrors(doc, tr, "hand", file_path, hands,
                              "Invalid hand ref: ", " in letterTradition "),
              FindAll(doc, 1, "letterTradition"))

\* a buggy cascade that goes on to the page of a letter the metadata does not know
MarginalErrors_no_short_circuit(doc, j, file_path, pages, letters) ==
    LET letter_id == doc[j].letter
        page_id == doc[j].page
        line_id == doc[j].line
        ln == get_line_number(doc, j)
    IN  (IF letter_id \notin letters
         THEN <<Err(file_path, ln,
                    <<"Invalid marginal letter reference: ", Str(letter_id),
                      " (not in meta.xml)">>)>>
         ELSE <<>>)
        \o (IF letter_id \notin DOMAIN pages
            THEN IF letter_id \in letters
                 THEN <<Err(file_path, ln,
                            <<"No pages/lines known for letter=", Str(letter_id),
                              " in briefe/traditions">>)>>
                 ELSE <<>>
            ELSE IF page_id \notin DOMAIN pages[letter_id]
            THEN <<Err(file_path, ln,
                       <<"Invalid page reference: letter=", letter_id,
                         ", page=", Str(page_id)>>)>>
            ELSE IF line_id \notin pages[letter_id][page_id]
            THEN <<Err(file_path, ln,
                       <<"Invalid line reference: letter=", letter_id,
                         ", page=", page_id, ", line=", Str(line_id)>>)>>
            ELSE <<>>)

\* 10) one <marginal> of Marginal-Kommentar.xml
MarginalErrors(doc, j, file_path, pages, letters) ==
    LET letter_id == doc[j].letter
        page_id == doc[j].page
        line_id == doc[j].line
        ln == get_line_number(doc, j)
    IN  IF letter_id \notin letters
        THEN <<Err(file_path, ln,
                   <<"Invalid marginal letter reference: ", Str(letter_id),
                     " (not in meta.xml)">>)>>
        ELSE IF letter_id \notin DOMAIN pages
        THEN <<Err(file_path, ln,
                   <<"No pages/lines known for letter=", Str(letter_id),
                     " in briefe/traditions">>)>>
        ELSE IF page_id \notin DOMAIN pages[letter_id]
        THEN <<Err(file_path, ln,
                   <<"Invalid page reference: letter=", letter_id,
                     ", page=", Str(page_id)>>)>>
        ELSE IF line_id \notin pages[letter_id][page_id]
        THEN <<Err(file_path, ln,
                   <<"Invalid line reference: letter=", letter_id,
                     ", page=", page_id, ", line=", Str(line_id)>>)>>
        ELSE <<>>

MarginalsErrors(doc, file_path, pages, letters) ==
    ConcatMap(LAMBDA j : MarginalErrors(doc, j, file_path, pages, letters),
              FindAll(doc, 1, "marginal"))

-----------------------------------------------------------------------------
(* The command line and the files it names                                 *)

meta_file == "meta.xml"
references_file == "references.xml"
briefe_file == "briefe.xml"
edits_file == "edits.xml"
traditions_file == "traditions.xml"
marginalien_file == "Marginal-Kommentar.xml"

MainFiles == <<meta_file, references_file, briefe_file, edits_file, traditions_file,
               marginalien_file>>

\* the paths --register may name, in the order the input sets use them
RegisterPaths == <<"register1.xml", "register2.xml", "register3.xml", "register4.xml",
                   "register5.xml", "register6.xml">>

\* the order of the parse_xml calls
ParseOrder == MainFiles \o extra_registers

\* the documents validate_intlinks is called on, in order
IntlinkOrder == <<traditions_file, marginalien_file>> \o extra_registers

\* the documents validate_links_in_tree is called on, in order
LinkOrder == MainFiles \o extra_registers

Tree(file_path) == fs[file_path].doc

-----------------------------------------------------------------------------
(* The run of validate_references                                          *)

Start(input) ==
    /\ fs = input.fs
    /\ extra_registers = input.extra_registers
    /\ pc = "parse"
    /\ idx = 1
    /\ person_refs = {}
    /\ location_refs = {}
    /\ hand_refs = {}
    /\ app_refs = {}
    /\ edit_refs = {}
    /\ letter_refs = {}
    /\ errors = <<>>
    /\ global_kommentar_ids = {}
    /\ global_subsection_ids = {}
    /\ letter_pages_brief = EmptyMap
    /\ letter_pages_trad = EmptyMap
    /\ letter_pages = EmptyMap
    /\ output = <<>>
    /\ exit_code = 0

\* the next position of a loop over seq, or the step after it
Advance(seq, after) ==
    IF idx < Len(seq) THEN pc' = pc /\ idx' = idx + 1
    ELSE pc' = after /\ idx' = 1

\* a parse_xml that prints its diagnostic and goes on to the next file
ParseXml_continuing ==
    /\ pc = "parse"
    /\ LET file_path == ParseOrder[idx]
       IN  IF fs[file_path].status = "ok"
           THEN UNCHANGED <<output, exit_code>>
           ELSE /\ output' = Append(output,
                       IF fs[file_path].status = "syntax"
                       THEN <<"Error parsing ", file_path>>
                       ELSE <<"Error: File not found - ", file_path>>)
                /\ exit_code' = 1
    /\ Advance(ParseOrder, "refs")
    /\ UNCHANGED <<fs, extra_registers, person_refs, location_refs, hand_refs, app_refs,
                   edit_refs, letter_refs, errors, global_kommentar_ids,
                   global_subsection_ids, letter_pages_brief, letter_pages_trad,
                   letter_pages>>

\* 1) parse_xml on the next file: the tree, or a diagnostic and sys.exit(1)
ParseXml ==
    /\ pc = "parse"
    /\ LET file_path == ParseOrder[idx]
       IN  IF fs[file_path].status = "ok"
           THEN /\ Advance(ParseOrder, "refs")
                /\ UNCHANGED <<output, exit_code>>
           ELSE /\ output' = Append(output,
                       IF fs[file_path].status = "syntax"
                       THEN <<"Error parsing ", file_path>>
                       ELSE <<"Error: File not found - ", file_path>>)
                /\ exit_code' = 1
                /\ pc' = "aborted"
                /\ idx' = idx
    /\ UNCHANGED <<fs, extra_registers, person_refs, location_refs, hand_refs, app_refs,
                   edit_refs, letter_refs, errors, global_kommentar_ids,
                   global_subsection_ids, letter_pages_brief, letter_pages_trad,
                   letter_pages>>

\* 3) the reference sets, and the empty error list and pools
BuildReferenceSets ==
    /\ pc = "refs"
    /\ person_refs' = IndexSet(Tree(references_file), "personDef")
    /\ location_refs' = IndexSet(Tree(references_file), "locationDef")
    /\ hand_refs' = IndexSet(Tree(references_file), "handDef")
    /\ app_refs' = IndexSet(Tree(references_file), "appDef")
    /\ edit_refs' = IndexSet(Tree(edits_file), "editreason")
    /\ letter_refs' = LetterSet(Tree(meta_file), "letterDesc")
    /\ errors' = <<>>
    /\ global_kommentar_ids' = {}
    /\ global_subsection_ids' = {}
    /\ pc' = IF extra_registers = <<>> THEN "meta" ELSE "gather"
    /\ idx' = 1
    /\ UNCHANGED <<fs, extra_registers, letter_pages_brief, letter_pages_trad,
                   letter_pages, output, exit_code>>

\* 4) gather_commentaries_and_subsections on the next register
GatherRegister ==
    /\ pc = "gather"
    /\ LET rfile == extra_registers[idx]
           r == gather_commentaries_and_subsections(Tree(rfile), rfile,
                    global_kommentar_ids, global_subsection_ids)
       IN  /\ errors' = errors \o r.errors
           /\ global_kommentar_ids' = r.global_kommentar_ids
           /\ global_subsection_ids' = r.global_subsection_ids
    /\ Advance(extra_registers, "meta")
    /\ UNCHANGED <<fs, extra_registers, person_refs, location_refs, hand_refs, app_refs,
                   edit_refs, letter_refs, letter_pages_brief, letter_pages_trad,
                   letter_pages, output, exit_code>>

\* a step that only appends to the error list
Check(at, new_errors, after) ==
    /\ pc = at
    /\ errors' = errors \o new_errors
    /\ pc' = after
    /\ idx' = 1
    /\ UNCHANGED <<fs, extra_registers, person_refs, location_refs, hand_refs, app_refs,
                   edit_refs, letter_refs, global_kommentar_ids, global_subsection_ids,
                   letter_pages_brief, letter_pages_trad, letter_pages, output,
                   exit_code>>

\* 5)
ValidateMeta ==
    Check("meta", MetaErrors(Tree(meta_file), meta_file, person_refs, location_refs),
          "briefe")

\* 6)
ValidateBriefe ==
    Check("briefe", BriefeErrors(Tree(briefe_file), briefe_file, letter_refs, hand_refs,
                                 edit_refs), "traditions")

\* 7)
ValidateTraditions ==
    Check("traditions", TraditionsErrors(Tree(traditions_file), traditions_file,
                                         letter_refs, app_refs, hand_refs), "build_brief")

\* 8) the three assignments of the merge section
BuildBrief ==
    /\ pc = "build_brief"
    /\ letter_pages_brief' = build_letter_page_line_map_brief(Tree(briefe_file))
    /\ pc' = "build_trad"
    /\ UNCHANGED <<fs, extra_registers, idx, person_refs, location_refs, hand_refs,
                   app_refs, edit_refs, letter_refs, errors, global_kommentar_ids,
                   global_subsection_ids, letter_pages_trad, letter_pages, output,
                   exit_code>>

BuildTrad ==
    /\ pc = "build_trad"
    /\ letter_pages_trad' = build_letter_page_line_map_trad(Tree(traditions_file))
    /\ pc' = "merge"
    /\ UNCHANGED <<fs, extra_registers, idx, person_refs, location_refs, hand_refs,
                   app_refs, edit_refs, letter_refs, errors, global_kommentar_ids,
                   global_subsection_ids, letter_pages_brief, letter_pages, output,
                   exit_code>>

\* map_a is updated in place and returned: both names hold the merged map afterwards;
\* the items of map_b are visited in whichever order the dictionary yields them
Merge ==
    /\ pc = "merge"
    /\ \E order \in ItemOrders(letter_pages_trad) :
          letter_pages' = merge_page_line_maps(letter_pages_brief, letter_pages_trad, order)
    /\ letter_pages_brief' = letter_pages'
    /\ pc' = "intlinks"
    /\ UNCHANGED <<fs, extra_registers, idx, person_refs, location_refs, hand_refs,
                   app_refs, edit_refs, letter_refs, errors, global_kommentar_ids,
                   global_subsection_ids, letter_pages_trad, output, exit_code>>

\* a step of a loop of calls that only append to the error list
LoopCheck(at, order, new_errors, after) ==
    /\ pc = at
    /\ errors' = errors \o new_errors
    /\ Advance(order, after)
    /\ UNCHANGED <<fs, extra_registers, person_refs, location_refs, hand_refs, app_refs,
                   edit_refs, letter_refs, global_kommentar_ids, global_subsection_ids,
                   letter_pages_brief, letter_pages_trad, letter_pages, output,
                   exit_code>>

\* 9) validate_intlinks on the next of traditions, marginalien, registers
ValidateIntlinks ==
    LoopCheck("intlinks", IntlinkOrder,
              validate_intlinks(Tree(IntlinkOrder[idx]), IntlinkOrder[idx], letter_pages,
                                letter_refs),
              "marginal")

\* 10)
ValidateMarginals ==
    Check("marginal", MarginalsErrors(Tree(marginalien_file), marginalien_file,
                                      letter_pages, letter_refs), "links")

\* 11) validate_links_in_tree on the next of the six documents and the registers
ValidateLinks ==
    LoopCheck("links", LinkOrder,
              validate_links_for_commentary(Tree(LinkOrder[idx]), LinkOrder[idx],
                                            global_kommentar_ids, global_subsection_ids),
              "report")

\* the annotation line printed for one error record
ErrorLine(err) == <<"::error file=", err.file, ",line=", err.line, "::", err.message>>

SuccessLine == <<"All references are valid.">>

\* a buggy report that prints a repeated record once
Report_deduplicating ==
    /\ pc = "report"
    /\ IF errors # <<>>
       THEN /\ output' = output \o
                   [k \in 1..Len(SelectSeq(Indices(errors),
                                  LAMBDA i : \A h \in 1..(i-1) : errors[h] # errors[i])) |->
                       ErrorLine(errors[SelectSeq(Indices(errors),
                                  LAMBDA i : \A h \in 1..(i-1) : errors[h] # errors[i])[k]])]
            /\ exit_code' = 1
       ELSE /\ output' = Append(output, SuccessLine)
            /\ exit_code' = exit_code
    /\ pc' = "done"
    /\ UNCHANGED <<fs, extra_registers, idx, person_refs, location_refs, hand_refs,
                   app_refs, edit_refs, letter_refs, errors, global_kommentar_ids,
                   global_subsection_ids, letter_pages_brief, letter_pages_trad,
                   letter_pages>>

\* Final: print the errors and sys.exit(1), or print the success line
Report ==
    /\ pc = "report"
    /\ IF errors # <<>>
       THEN /\ output' = output \o [k \in 1..Len(errors) |-> ErrorLine(errors[k])]
            /\ exit_code' = 1
       ELSE /\ output' = Append(output, SuccessLine)
            /\ exit_code' = exit_code
    /\ pc' = "done"
    /\ UNCHANGED <<fs, extra_registers, idx, person_refs, location_refs, hand_refs,
                   app_refs, edit_refs, letter_refs, errors, global_kommentar_ids,
                   global_subsection_ids, letter_pages_brief, letter_pages_trad,
                   letter_pages>>

Next ==
    \/ ParseXml
    \/ BuildReferenceSets
    \/ GatherRegister
    \/ ValidateMeta
    \/ ValidateBriefe
    \/ ValidateTraditions
    \/ BuildBrief
    \/ BuildTrad
    \/ Merge
    \/ ValidateIntlinks
    \/ ValidateMarginals
    \/ ValidateLinks
    \/ Report

------------------------------------------------------------------------\* the line the shell shows between two invocations of the script
PromptLine == <<"$ ">>

\* the script is invoked once more with the same command line on the same files:
\* a new process, whose output follows the first one's on the terminal
Rerun ==
    /\ pc \in {"done", "aborted"}
    /\ PromptLine \notin Range(output)
    /\ output' = Append(output, PromptLine)
    /\ pc' = "parse"
    /\ idx' = 1
    /\ person_refs' = {}
    /\ location_refs' = {}
    /\ hand_refs' = {}
    /\ app_refs' = {}
    /\ edit_refs' = {}
    /\ letter_refs' = {}
    /\ errors' = <<>>
    /\ global_kommentar_ids' = {}
    /\ global_subsection_ids' = {}
    /\ letter_pages_brief' = EmptyMap
    /\ letter_pages_trad' = EmptyMap
    /\ letter_pages' = EmptyMap
    /\ exit_code' = 0
    /\ UNCHANGED <<fs, extra_registers>>

NextTwice ==
    \/ Next
    \/ Rerun

-----
(* Input sets: the files of a small edition, and bounded variations of it  *)

File(doc) == [status |-> "ok", doc |-> doc]

LetterElem(tag, depth, letter) == [Elem(tag, depth) EXCEPT !.letter = letter]
IndexElem(tag, depth, index) == [Elem(tag, depth) EXCEPT !.index = index]
RefElem(tag, depth, ref) == [Elem(tag, depth) EXCEPT !.ref = ref]
IdElem(tag, depth, id) == [Elem(tag, depth) EXCEPT !.id = id]
Anchor(tag, depth, letter, page, line) ==
    [Elem(tag, depth) EXCEPT !.letter = letter, !.page = page, !.line = line]
Link(depth, ref, subref) == [Elem("link", depth) EXCEPT !.ref = ref, !.subref = subref]

\* letters L1 and L3 are described; only L1 has text: page 1 with lines 1 and 2
BaseMeta ==
    <<Root, LetterElem("letterDesc", 1, "L1"), RefElem("sender", 2, "P1"),
      RefElem("location", 2, "O1"), LetterElem("letterDesc", 1, "L3")>>
BaseReferences ==
    <<Root, IndexElem("personDef", 1, "P1"), IndexElem("locationDef", 1, "O1"),
      IndexElem("handDef", 1, "h1"), IndexElem("appDef", 1, "a1")>>
BaseBriefe ==
    <<Root, Elem("document", 1), LetterElem("letterText", 2, "L1"),
      IndexElem("page", 3, "1"), IndexElem("line", 3, "1"), RefElem("hand", 3, "h1")>>
BaseEdits == <<Root, IndexElem("editreason", 1, "e1")>>
BaseTraditions ==
    <<Root, LetterElem("letterTradition", 1, "L1"), IndexElem("page", 2, "1"),
      IndexElem("line", 2, "2"), RefElem("app", 2, "a1")>>
BaseMarginalien == <<Root, Anchor("marginal", 1, "L1", "1", "1")>>
BaseRegister ==
    <<Root, IdElem("kommentar", 1, "k1"), Elem("lemma", 2), IdElem("subsection", 2, "s1"),
      Elem("lemma", 3)>>

BaseInput ==
    [fs |-> (meta_file :> File(BaseMeta)) @@ (references_file :> File(BaseReferences))
            @@ (briefe_file :> File(BaseBriefe)) @@ (edits_file :> File(BaseEdits))
            @@ (traditions_file :> File(BaseTraditions))
            @@ (marginalien_file :> File(BaseMarginalien))
            @@ (RegisterPaths[1] :> File(BaseRegister)),
     extra_registers |-> <<RegisterPaths[1]>>]

WithDoc(input, file_path, doc) == [input EXCEPT !.fs[file_path] = File(doc)]

WithStatus(input, file_path, status) == [input EXCEPT !.fs[file_path].status = status]

\* the input in which file_path holds doc continued by the elements of suffix
Extended(input, file_path, doc, suffix) == WithDoc(input, file_path, doc \o suffix)

\* a run with one file unreadable or malformed
BrokenInputs ==
    {WithStatus(BaseInput, f, st) : f \in Range(MainFiles) \cup {RegisterPaths[1]},
                                    st \in {"syntax", "oserror"}}

MaxReportElems == 3

\* a sender below two nested descriptors: the same violation is recorded twice
NestedMeta ==
    <<Root, LetterElem("letterDesc", 1, "L1"), LetterElem("letterDesc", 2, "L1"),
      RefElem("sender", 3, "P9")>>

\* between none and MaxReportElems dangling or resolving references in the marginal notes
ReportKinds ==
    {Link(1, "k9", None), Link(1, "k1", None), Anchor("marginal", 1, "L9", "1", "1")}

OtherReportInputs ==
    BrokenInputs
    \cup {[BaseInput EXCEPT !.extra_registers = <<>>],
          WithDoc(BaseInput, meta_file, NestedMeta)}

MaxBriefElems == 2
MaxTradElems == 2

\* transcriptions: letter L1 opens on page 1; then letter blocks, page and line markers
MergeBriefKinds ==
    {LetterElem("letterText", 2, "L2"), IndexElem("page", 3, "2"),
     IndexElem("line", 3, "1"), IndexElem("line", 3, "2")}

\* traditions: the block of L1 opens on page 1; then blocks, page and line markers
MergeTradKinds ==
    {LetterElem("letterTradition", 1, "L2"), IndexElem("page", 2, "2"),
     IndexElem("line", 2, "1"), IndexElem("line", 2, "3")}

MergeBriefPrefix ==
    <<Root, Elem("document", 1), LetterElem("letterText", 2, "L1"),
      IndexElem("page", 3, "1")>>

MergeTradPrefix ==
    <<Root, LetterElem("letterTradition", 1, "L1"), IndexElem("page", 2, "1")>>

InitMerge ==
    \E kb \in 0..MaxBriefElems, kt \in 0..MaxTradElems :
        \E b \in [1..kb -> MergeBriefKinds], t \in [1..kt -> MergeTradKinds] :
            /\ WellFormed(MergeBriefPrefix \o b)
            /\ WellFormed(MergeTradPrefix \o t)
            /\ Start(Extended(Extended(BaseInput, briefe_file, MergeBriefPrefix, b),
                              traditions_file, MergeTradPrefix, t))

SpecMerge == InitMerge /\ [][Next]_vars

MaxIntlinks == 1

\* an intlink with its letter absent, empty, resolving (L1), without text (L3) or
\* unknown (L9), and its page and line absent, empty, resolving or unknown
IntlinkKinds ==
    {Anchor("intlink", 1, L, P, l) : L \in {None, "", "L1", "L3", "L9"},
                                     P \in {None, "", "1", "9"},
                                     l \in {None, "", "1", "9"}}

\* a transcription whose page 1 of L1 holds line 7 instead of line 1
OtherLinesBriefe ==
    <<Root, Elem("document", 1), LetterElem("letterText", 2, "L1"),
      IndexElem("page", 3, "1"), IndexElem("line", 3, "7")>>

\* the documents the intlinks are added to, with the input they are added in
IntlinkHosts ==
    {[input |-> BaseInput, file |-> marginalien_file],
     [input |-> WithDoc(BaseInput, briefe_file, OtherLinesBriefe), file |-> marginalien_file],
     [input |-> BaseInput, file |-> traditions_file],
     [input |-> BaseInput, file |-> RegisterPaths[1]]}

InitIntlink ==
    \E k \in 0..MaxIntlinks, h \in IntlinkHosts :
        \E d \in [1..k -> IntlinkKinds] :
            /\ WellFormed(h.input.fs[h.file].doc \o d)
            /\ Start(Extended(h.input, h.file, h.input.fs[h.file].doc, d))

SpecIntlink == InitIntlink /\ [][Next]_vars

MaxMarginals == 1

\* a marginal with its letter absent, empty, resolving (L1), without text (L3) or
\* transcribed but not described (L2), and its page and line absent, empty,
\* resolving or unknown
MarginalKinds ==
    {Anchor("marginal", 1, L, P, l) : L \in {None, "", "L1", "L2", "L3"},
                                      P \in {None, "", "1", "9"},
                                      l \in {None, "", "1", "9"}}

\* metadata with a descriptor that has no letter attribute and one with an empty one
AnonymousMeta ==
    BaseMeta \o <<Elem("letterDesc", 1), LetterElem("letterDesc", 1, "")>>

\* a transcription that also holds letter L2, which the metadata does not describe
BriefeWithL2 ==
    BaseBriefe \o <<LetterElem("letterText", 2, "L2"), IndexElem("page", 3, "1"),
                    IndexElem("line", 3, "1")>>

InitMarginal ==
    \E k \in 0..MaxMarginals, m \in {BaseMeta, AnonymousMeta} :
        \E d \in [1..k -> MarginalKinds] :
            Start(Extended(WithDoc(WithDoc(BaseInput, briefe_file, BriefeWithL2),
                                   meta_file, m),
                           marginalien_file, <<Root>>, d))

SpecMarginal == InitMarginal /\ [][Next]_vars

MaxRegisterElems == 3

\* what separates the elements of one register from those of the next
Break == Elem("#next register", 0)

\* commentary entries and subsections with an identifier that is absent, empty or
\* one of two, a <lemma> for the element before it, and the end of a register
RegisterKinds ==
    {IdElem("kommentar", 1, id) : id \in {None, "", "k1", "k2"}}
    \cup {IdElem("subsection", 1, id) : id \in {None, "k1"}}
    \cup {Elem("lemma", 2), Break}

\* the registers a sequence of elements and breaks stands for, each below its root
RECURSIVE SplitRegisters(_)
SplitRegisters(items) ==
    IF \A k \in 1..Len(items) : items[k] # Break
    THEN <<<<Root>> \o items>>
    ELSE LET b == CHOOSE k \in 1..Len(items) :
                      items[k] = Break /\ \A h \in 1..(k-1) : items[h] # Break
         IN  <<<<Root>> \o SubSeq(items, 1, b - 1)>>
             \o SplitRegisters(SubSeq(items, b + 1, Len(items)))

\* links to k1 and k2 and a subref to k1, in the marginal notes
RegisterLinks ==
    <<Root, Link(1, "k1", None), Link(1, "k2", None), Link(1, None, "k1")>>

\* the base edition with these registers instead of its own
WithRegisters(docs) ==
    [fs |-> [p \in Range(MainFiles) |->
                IF p = marginalien_file THEN File(RegisterLinks) ELSE BaseInput.fs[p]]
            @@ [p \in {RegisterPaths[r] : r \in 1..Len(docs)} |->
                   File(docs[CHOOSE r \in 1..Len(docs) : RegisterPaths[r] = p])],
     extra_registers |-> SubSeq(RegisterPaths, 1, Len(docs))]

InitRegister ==
    \E k \in 0..MaxRegisterElems :
        \E items \in [1..k -> RegisterKinds] :
            /\ \A r \in 1..Len(SplitRegisters(items)) : WellFormed(SplitRegisters(items)[r])
            /\ Start(WithRegisters(SplitRegisters(items)))

SpecRegister == InitRegister /\ [][Next]_vars

MaxLinks == 1

\* a link whose ref and subref are absent, empty, a commentary entry (k1), a
\* subsection (s1) or unknown (k9)
LinkKinds ==
    {Link(1, r, sr) : r \in {None, "", "k1", "s1", "k9"},
                      sr \in {None, "", "k1", "s1", "k9"}}

\* two registers: the first defines subsection s1, the second commentary entry k1
LinkRegisters ==
    <<<<Root, IdElem("subsection", 1, "s1"), Elem("lemma", 2)>>,
      <<Root, IdElem("kommentar", 1, "k1"), Elem("lemma", 2)>>>>

LinkBase ==
    [WithRegisters(LinkRegisters) EXCEPT !.fs[marginalien_file] = File(BaseMarginalien)]

\* links added to any one of the six documents or the two registers
InitLinks ==
    \E k \in 0..MaxLinks, host \in DOMAIN LinkBase.fs :
        \E d \in [1..k -> LinkKinds] :
            Start(Extended(LinkBase, host, LinkBase.fs[host].doc, d))

SpecLinks == InitLinks /\ [][Next]_vars

MaxMetaElems == 2

\* after the descriptor of L1: descriptors, senders, receivers and locations, at
\* the level of that descriptor, below it or one deeper; refs absent, empty,
\* resolving (P1, O1) or dangling (P9, O9)
MetaKinds ==
    {LetterElem("letterDesc", d, "L2") : d \in {1, 2}}
    \cup {RefElem("sender", d, r) : d \in {1, 2, 3}, r \in {None, "", "P1", "P9"}}
    \cup {RefElem("receiver", 2, r) : r \in {"", "P9"}}
    \cup {RefElem("location", d, r) : d \in {2, 3}, r \in {None, "", "O1", "O9"}}

MetaPrefix == <<Root, LetterElem("letterDesc", 1, "L1")>>

InitMeta ==
    \E k \in 0..MaxMetaElems :
        \E d \in [1..k -> MetaKinds] :
            /\ WellFormed(MetaPrefix \o d)
            /\ Start(Extended(BaseInput, meta_file, MetaPrefix, d))

SpecMeta == InitMeta /\ [][Next]_vars

MaxBlockElems == 2

\* after the letter-text block of L1: blocks, hands and edits at the level of that
\* block, below it or one deeper
BriefeRefKinds ==
    {LetterElem("letterText", d, "L1") : d \in {1, 2}}
    \cup {RefElem("hand", d, r) : d \in {1, 2, 3}, r \in {None, "", "h1", "h9"}}
    \cup {RefElem("edit", d, r) : d \in {1, 2}, r \in {"", "e1", "e9"}}

\* the same for the tradition block of L1, with apps for edits
TraditionsRefKinds ==
    {LetterElem("letterTradition", d, "L1") : d \in {1, 2}}
    \cup {RefElem("hand", d, r) : d \in {1, 2, 3}, r \in {None, "", "h1", "h9"}}
    \cup {RefElem("app", d, r) : d \in {1, 2}, r \in {"", "a1", "a9"}}

BlockHosts ==
    {[file |-> briefe_file, prefix |-> <<Root, LetterElem("letterText", 1, "L1")>>,
      kinds |-> BriefeRefKinds],
     [file |-> traditions_file, prefix |-> <<Root, LetterElem("letterTradition", 1, "L1")>>,
      kinds |-> TraditionsRefKinds]}

InitBlocks ==
    \E k \in 0..MaxBlockElems, h \in BlockHosts :
        \E d \in [1..k -> h.kinds] :
            /\ WellFormed(h.prefix \o d)
            /\ Start(Extended(BaseInput, h.file, h.prefix, d))

SpecBlocks == InitBlocks /\ [][Next]_vars

Init ==
    \/ \E k \in 0..MaxReportElems :
          \E d \in [1..k -> ReportKinds] :
              Start(Extended(BaseInput, marginalien_file, <<Root>>, d))
    \/ \E input \in OtherReportInputs : Start(input)

Spec == Init /\ [][Next]_vars

-----------------------------------------------------------------------------
(* Properties                                                              *)

\* the violations recorded for the element on line j of a file
ErrorsAt(file_path, j) == SelectSeq(errors, LAMBDA e : e.file = file_path /\ e.line = j)

\* the elements with a tag anywhere below the root of a file
Elems(file_path, tag) == Range(FindAll(Tree(file_path), 1, tag))

\* the printed lines that are violation annotations
AnnotationLines == SelectSeq(output, LAMBDA ln : ln[1] = "::error file=")

\* C10: a run that reaches the report step prints exactly one annotation line
\* per violation record, in order and without merging repeated records, and exits
\* with status 1 exactly when the list is non-empty; the success line is printed
\* exactly when the list is empty, and then the status is 0.
C10_ReportAndExitStatus ==
    pc = "done" =>
        /\ Len(AnnotationLines) = Len(errors)
        /\ \A k \in 1..Len(errors) :
              /\ AnnotationLines[k][2] = errors[k].file
              /\ AnnotationLines[k][4] = errors[k].line
              /\ AnnotationLines[k][6] = errors[k].message
        /\ (exit_code = 1) <=> (errors # <<>>)
        /\ (\E k \in 1..Len(output) : output[k] = SuccessLine) <=> (errors = <<>>)
        /\ errors = <<>> => exit_code = 0
        /\ Len(output) = (IF errors = <<>> THEN 1 ELSE Len(errors))

\* a finished run whose list holds the same record twice, both printed
C10_Witness ==
    /\ pc = "done"
    /\ \E i, j \in 1..Len(errors) : i < j /\ errors[i] = errors[j]
    /\ Len(AnnotationLines) = Len(errors)

\* the steps that follow the merge
AfterMerge == {"intlinks", "marginal", "links", "report", "done"}

\* C1: the merge step leaves in the location map exactly the triples that the
\* transcription scan or the tradition scan had recorded, and no later step
\* changes the map.
C1_MergeIsUnion ==
    [][/\ pc = "merge" =>
             Triples(letter_pages') = Triples(letter_pages_brief) \cup Triples(letter_pages_trad)
       /\ pc \in AfterMerge => letter_pages' = letter_pages]_vars

\* after the merge: a triple only the transcription gave, one only the tradition
\* gave, under the same letter and page
C1_Witness ==
    /\ pc = "intlinks"
    /\ \E a \in Triples(letter_pages), b \in Triples(letter_pages_trad) :
          /\ a \notin Triples(letter_pages_trad)
          /\ b \notin Triples(build_letter_page_line_map_brief(Tree(briefe_file)))
          /\ a[1] = b[1] /\ a[2] = b[2]
          /\ {a, b} \subseteq Triples(letter_pages)

\* the steps that follow the intlink checks
IntlinksDone == pc \in {"marginal", "links", "report", "done"}

\* the intlinks of the documents validate_intlinks was called on, as <<file, line>>
Intlinks == UNION {{<<f, j>> : j \in Elems(f, "intlink")} : f \in Range(IntlinkOrder)}

\* letter and page of an intlink resolve: the letter is known and has text, and the
\* page, unless empty, is one of the letter's pages
LetterAndPageResolve(e) ==
    /\ Truthy(e.letter)
    /\ e.letter \in letter_refs
    /\ e.letter \in DOMAIN letter_pages
    /\ e.page = "" \/ e.page \in DOMAIN letter_pages[e.letter]

\* C2 as stated: an intlink with a page attribute and no line attribute never
\* yields a violation.
C2_Original ==
    IntlinksDone =>
        \A x \in Intlinks :
            LET e == Tree(x[1])[x[2]]
            IN  (e.page # None /\ e.line = None) => ErrorsAt(x[1], x[2]) = <<>>

\* C2 amended: an intlink with a page attribute and no line attribute yields no
\* violation when its letter is known and has text and its page, unless empty, is
\* one of that letter's pages, whatever lines the map holds; otherwise it yields
\* exactly one violation, about the letter or the page.
C2_PageWithoutLine ==
    IntlinksDone =>
        \A x \in Intlinks :
            LET e == Tree(x[1])[x[2]]
                errs == ErrorsAt(x[1], x[2])
            IN  (e.page # None /\ e.line = None) =>
                    /\ LetterAndPageResolve(e) => errs = <<>>
                    /\ ~LetterAndPageResolve(e) =>
                          /\ Len(errs) = 1
                          /\ errs[1].message[1] \in
                                {"Invalid intlink letter=", "No pages known for letter=",
                                 "Invalid page="}

\* an accepted intlink with a resolving page and no line
C2_Witness ==
    /\ IntlinksDone
    /\ \E x \in Intlinks :
          LET e == Tree(x[1])[x[2]]
          IN  /\ Truthy(e.page) /\ e.line = None
              /\ LetterAndPageResolve(e)
              /\ ErrorsAt(x[1], x[2]) = <<>>

\* C3: an intlink with a non-empty line attribute and no page attribute yields at
\* least one violation, whatever its letter and whatever the letter set and the
\* location map hold.
C3_LineWithoutPage ==
    IntlinksDone =>
        \A x \in Intlinks :
            LET e == Tree(x[1])[x[2]]
            IN  (Truthy(e.line) /\ e.page = None) => Len(ErrorsAt(x[1], x[2])) >= 1

\* a line without a page under a letter that is known and has text: the violation
\* is the one about the missing page
C3_Witness ==
    /\ IntlinksDone
    /\ \E x \in Intlinks :
          LET e == Tree(x[1])[x[2]]
              errs == ErrorsAt(x[1], x[2])
          IN  /\ Truthy(e.line) /\ e.page = None
              /\ e.letter \in letter_refs /\ e.letter \in DOMAIN letter_pages
              /\ Len(errs) = 1
              /\ errs[1].message[1] = "intlink has line="

\* the steps that follow the marginal check
MarginalsDone == pc \in {"links", "report", "done"}

\* C6: every marginal yields at most one violation, the one of the first level that
\* does not resolve, in the order letter in the letter set, letter in the location
\* map, page under the letter, line under the page; a letter that is not in the
\* letter set yields exactly one violation whatever the page and the line are; a
\* marginal that lacks one of its three attributes yields exactly one violation.
C6_MarginalCascade ==
    MarginalsDone =>
        \A j \in Elems(marginalien_file, "marginal") :
            LET e == Tree(marginalien_file)[j]
                errs == ErrorsAt(marginalien_file, j)
            IN  /\ Len(errs) <= 1
                /\ IF e.letter \notin letter_refs
                   THEN errs = <<Err(marginalien_file, j,
                                     <<"Invalid marginal letter reference: ",
                                       Str(e.letter), " (not in meta.xml)">>)>>
                   ELSE IF e.letter \notin DOMAIN letter_pages
                   THEN Len(errs) = 1
                        /\ errs[1].message[1] = "No pages/lines known for letter="
                   ELSE IF e.page \notin DOMAIN letter_pages[e.letter]
                   THEN Len(errs) = 1
                        /\ errs[1].message[1] = "Invalid page reference: letter="
                   ELSE IF e.line \notin letter_pages[e.letter][e.page]
                   THEN Len(errs) = 1
                        /\ errs[1].message[1] = "Invalid line reference: letter="
                   ELSE errs = <<>>
                /\ (e.letter = None \/ e.page = None \/ e.line = None) => Len(errs) = 1

\* a marginal on a transcribed letter the metadata does not describe, with a page
\* that letter does not have: one violation, about the letter
C6_Witness ==
    /\ MarginalsDone
    /\ \E j \in Elems(marginalien_file, "marginal") :
          LET e == Tree(marginalien_file)[j]
          IN  /\ Truthy(e.letter) /\ e.letter \notin letter_refs
              /\ e.letter \in DOMAIN letter_pages
              /\ e.page \notin DOMAIN letter_pages[e.letter]
              /\ Len(ErrorsAt(marginalien_file, j)) = 1

\* the steps that follow the gathering of the registers
GatherDone == pc \notin {"parse", "aborted", "refs", "gather"}

\* the steps that follow the link checks
LinksDone == pc \in {"report", "done"}

\* all violations recorded so far with this message
ErrorsWith(message) == SelectSeq(errors, LAMBDA e : e.message = message)

\* the elements of the registers with a tag, as <<file, line>>
RegisterElems(tag) ==
    UNION {{<<f, j>> : j \in Elems(f, tag)} : f \in Range(extra_registers)}

\* the links of all checked documents, as <<file, line>>
Links == UNION {{<<f, j>> : j \in Elems(f, "link")} : f \in Range(LinkOrder)}

\* the identifier is that of exactly two commentary entries, in different registers
OnceInEachOfTwoRegisters(id) ==
    LET occ == {x \in RegisterElems("kommentar") : Tree(x[1])[x[2]].id = id}
    IN  /\ Cardinality(occ) = 2
        /\ \A x, y \in occ : x # y => x[1] # y[1]

\* the links whose ref is this identifier raised no violation about it
RefResolves(id) ==
    \A x \in Links :
        Tree(x[1])[x[2]].ref = id =>
            \A k \in 1..Len(errors) :
                ~(errors[k].file = x[1] /\ errors[k].line = x[2]
                  /\ errors[k].message = InvalidRefMsg(id))

\* C4: an identifier (a non-empty id; an empty one counts as missing) used by one
\* commentary entry in each of two different registers raises exactly one duplicate-across-registers violation and no
\* duplicate-in-this-file violation, is in the commentary pool, and resolves as the
\* ref of a later link.
C4_DuplicateAcrossRegisters ==
    \A id \in {Tree(x[1])[x[2]].id : x \in RegisterElems("kommentar")} :
        (Truthy(id) /\ OnceInEachOfTwoRegisters(id)) =>
            /\ GatherDone =>
                  /\ Len(ErrorsWith(DupGlobalMsg("kommentar", id))) = 1
                  /\ ErrorsWith(DupLocalMsg("kommentar", id)) = <<>>
                  /\ id \in global_kommentar_ids
            /\ LinksDone => RefResolves(id)

\* k1 in two registers, one violation raised by the second, and the link to k1 checked
C4_Witness ==
    /\ LinksDone
    /\ OnceInEachOfTwoRegisters("k1")
    /\ \E x \in Links : Tree(x[1])[x[2]].ref = "k1"
    /\ Len(ErrorsWith(DupGlobalMsg("kommentar", "k1"))) = 1
    /\ ErrorsWith(DupGlobalMsg("kommentar", "k1"))[1].file = extra_registers[2]

\* C5: a commentary entry or subsection with an identifier and no <lemma> below it
\* raises one missing-lemma violation, whether or not a duplicate violation was
\* raised for it, and its identifier is in the pool of its kind and resolves as the
\* ref of a later link.
C5_MissingLemmaStillRegistered ==
    \A tag \in {"kommentar", "subsection"} :
        \A x \in RegisterElems(tag) :
            LET e == Tree(x[1])[x[2]]
            IN  (Truthy(e.id) /\ FindAll(Tree(x[1]), x[2], "lemma") = <<>>) =>
                    /\ GatherDone =>
                          /\ Len(SelectSeq(ErrorsAt(x[1], x[2]),
                                     LAMBDA err : err.message = MissingLemmaMsg(tag, e.id))) = 1
                          /\ e.id \in (IF tag = "kommentar" THEN global_kommentar_ids
                                       ELSE global_subsection_ids)
                    /\ LinksDone => RefResolves(e.id)

\* an entry without <lemma> that also raised a duplicate violation, with its
\* missing-lemma violation, and a link to it checked
C5_Witness ==
    /\ LinksDone
    /\ \E x \in RegisterElems("kommentar") :
          LET e == Tree(x[1])[x[2]]
          IN  /\ Truthy(e.id) /\ FindAll(Tree(x[1]), x[2], "lemma") = <<>>
              /\ \E k \in 1..Len(errors) :
                    /\ errors[k].file = x[1] /\ errors[k].line = x[2]
                    /\ errors[k].message = DupGlobalMsg("kommentar", e.id)
              /\ \E k \in 1..Len(errors) :
                    /\ errors[k].file = x[1] /\ errors[k].line = x[2]
                    /\ errors[k].message = MissingLemmaMsg("kommentar", e.id)
              /\ \E y \in Links : Tree(y[1])[y[2]].ref = e.id

\* the link on line x[2] of file x[1] raised a violation with this message
Raised(x, message) ==
    \E k \in 1..Len(errors) :
        errors[k].file = x[1] /\ errors[k].line = x[2] /\ errors[k].message = message

\* C9 as stated: a ref that is present is reported exactly when it is in neither
\* pool, and a subref that is present exactly when it is not in the subsection pool.
C9_Original ==
    LinksDone =>
        \A x \in Links :
            LET e == Tree(x[1])[x[2]]
            IN  /\ e.ref # None =>
                      (Raised(x, InvalidRefMsg(e.ref)) <=>
                          (e.ref \notin global_kommentar_ids \cup global_subsection_ids))
                /\ e.subref # None =>
                      (Raised(x, InvalidSubrefMsg(e.subref)) <=>
                          e.subref \notin global_subsection_ids)

\* C9 amended: in every input document, checked after all registers are gathered, a
\* link's ref is reported exactly when it is non-empty and in neither pool, its
\* subref exactly when it is non-empty and not in the subsection pool, and a link
\* raises nothing else; an absent or empty ref or subref is never reported.
C9_LinkCheck ==
    LinksDone =>
        \A x \in Links :
            LET e == Tree(x[1])[x[2]]
                refBad == Truthy(e.ref)
                          /\ e.ref \notin global_kommentar_ids \cup global_subsection_ids
                subrefBad == Truthy(e.subref) /\ e.subref \notin global_subsection_ids
            IN  /\ Raised(x, InvalidRefMsg(e.ref)) <=> refBad
                /\ Raised(x, InvalidSubrefMsg(e.subref)) <=> subrefBad
                /\ Len(ErrorsAt(x[1], x[2])) =
                      (IF refBad THEN 1 ELSE 0) + (IF subrefBad THEN 1 ELSE 0)

\* a link in the first register whose ref is defined only in the second register
\* and whose subref is a commentary entry: the ref resolves, the subref does not
C9_Witness ==
    /\ LinksDone
    /\ Len(extra_registers) >= 2
    /\ \E j \in Elems(extra_registers[1], "link") :
          LET e == Tree(extra_registers[1])[j]
          IN  /\ Truthy(e.ref)
              /\ e.ref \in global_kommentar_ids
              /\ e.ref \notin {Tree(extra_registers[1])[h].id :
                                  h \in 1..Len(Tree(extra_registers[1]))}
              /\ e.subref \in global_kommentar_ids
              /\ ~Raised(<<extra_registers[1], j>>, InvalidRefMsg(e.ref))
              /\ Raised(<<extra_registers[1], j>>, InvalidSubrefMsg(e.subref))

\* the elements with a tag that element j of a document lies below
Ancestors(doc, j, tag) == {i \in 1..Len(doc) : doc[i].tag = tag /\ IsDescendant(doc, i, j)}

\* the steps that follow the check of meta.xml
MetaDone == pc \notin {"parse", "aborted", "refs", "gather", "meta"}

\* C7 as stated: below every letter descriptor, a sender or receiver whose ref is
\* present and not a person yields exactly one violation, a location whose ref is
\* present and not a location yields a violation, and an element without ref none.
C7_Original ==
    MetaDone =>
        LET doc == Tree(meta_file)
        IN  \A ld \in Elems(meta_file, "letterDesc") :
                /\ \A tag \in {"sender", "receiver"} :
                      \A j \in Range(FindAll(doc, ld, tag)) :
                          (doc[j].ref # None /\ doc[j].ref \notin person_refs) =>
                              Len(ErrorsAt(meta_file, j)) = 1
                /\ \A j \in Range(FindAll(doc, ld, "location")) :
                      (doc[j].ref # None /\ doc[j].ref \notin location_refs) =>
                          Len(ErrorsAt(meta_file, j)) >= 1
                /\ \A tag \in {"sender", "receiver", "location"} :
                      \A j \in Range(FindAll(doc, ld, tag)) :
                          doc[j].ref = None => ErrorsAt(meta_file, j) = <<>>

\* C7 amended: a sender or receiver whose ref is non-empty and not a person yields
\* one violation for each letter descriptor it lies below, naming that descriptor's
\* letter; the first location below a descriptor yields one for that descriptor when
\* its ref is non-empty and not a location; an absent or empty ref, a later location
\* of a descriptor and an element below no descriptor yield none.
C7_MetaRefs ==
    MetaDone =>
        LET doc == Tree(meta_file)
        IN  /\ \A tag \in {"sender", "receiver"} :
                  \A j \in Elems(meta_file, tag) :
                      LET blocks == Ancestors(doc, j, "letterDesc")
                          bad == Truthy(doc[j].ref) /\ doc[j].ref \notin person_refs
                      IN  /\ Len(ErrorsAt(meta_file, j)) =
                                (IF bad THEN Cardinality(blocks) ELSE 0)
                          /\ bad => \A ld \in blocks :
                                Raised(<<meta_file, j>>,
                                       <<(IF tag = "sender" THEN "Invalid sender ref: "
                                          ELSE "Invalid receiver ref: "),
                                         doc[j].ref, " in letter=", Str(doc[ld].letter)>>)
            /\ \A j \in Elems(meta_file, "location") :
                  LET blocks == {ld \in Ancestors(doc, j, "letterDesc") :
                                    Head(FindAll(doc, ld, "location")) = j}
                      bad == Truthy(doc[j].ref) /\ doc[j].ref \notin location_refs
                  IN  /\ Len(ErrorsAt(meta_file, j)) =
                            (IF bad THEN Cardinality(blocks) ELSE 0)
                      /\ bad => \A ld \in blocks :
                            Raised(<<meta_file, j>>,
                                   <<"Invalid location ref: ", doc[j].ref, " in letter=",
                                     Str(doc[ld].letter)>>)

\* the descriptor of L1 with sender P9, which is no person: the one violation
\* "Invalid sender ref: P9 in letter=L1"
C7_Witness ==
    /\ MetaDone
    /\ \E j \in Elems(meta_file, "sender") :
          /\ Tree(meta_file)[j].ref = "P9"
          /\ "P9" \notin person_refs
          /\ Cardinality(Ancestors(Tree(meta_file), j, "letterDesc")) = 1
          /\ ErrorsAt(meta_file, j) =
                <<Err(meta_file, j, <<"Invalid sender ref: ", "P9", " in letter=", "L1">>)>>

\* the steps that follow the checks of briefe.xml and traditions.xml
BlocksDone == pc \notin {"parse", "aborted", "refs", "gather", "meta", "briefe", "traditions"}

\* the reference elements of the two documents: file, block tag, tag, set of the tag
BlockRefs ==
    {[file |-> briefe_file, block |-> "letterText", tag |-> "hand", known |-> hand_refs],
     [file |-> briefe_file, block |-> "letterText", tag |-> "edit", known |-> edit_refs],
     [file |-> traditions_file, block |-> "letterTradition", tag |-> "hand",
      known |-> hand_refs],
     [file |-> traditions_file, block |-> "letterTradition", tag |-> "app",
      known |-> app_refs]}

\* C8 as stated: every hand anywhere in the transcription or tradition document,
\* every edit in the transcription and every app in the tradition whose ref is
\* present and not in its set yields exactly one violation.
C8_Original ==
    BlocksDone =>
        \A c \in BlockRefs :
            \A j \in Elems(c.file, c.tag) :
                (Tree(c.file)[j].ref # None /\ Tree(c.file)[j].ref \notin c.known) =>
                    Len(ErrorsAt(c.file, j)) = 1

\* C8 amended: a hand or edit below a letter-text block of the transcription, and a
\* hand or app below a tradition block of the tradition document, whose ref is
\* non-empty and not in its set yields one violation for each such block it lies
\* below; an absent or empty ref and an element below no block yield none.
C8_BlockRefs ==
    BlocksDone =>
        \A c \in BlockRefs :
            \A j \in Elems(c.file, c.tag) :
                LET doc == Tree(c.file)
                    bad == Truthy(doc[j].ref) /\ doc[j].ref \notin c.known
                IN  Len(ErrorsAt(c.file, j)) =
                        (IF bad THEN Cardinality(Ancestors(doc, j, c.block)) ELSE 0)

\* a dangling app below exactly one tradition block, reported once
C8_Witness ==
    /\ BlocksDone
    /\ \E j \in Elems(traditions_file, "app") :
          /\ Truthy(Tree(traditions_file)[j].ref)
          /\ Tree(traditions_file)[j].ref \notin app_refs
          /\ Cardinality(Ancestors(Tree(traditions_file), j, "letterTradition")) = 1
          /\ Len(ErrorsAt(traditions_file, j)) = 1


-----------------------------------------------------------------------------
(* Load errors: any of the files may be unreadable or malformed            *)

MaxLoadRegisters == 2

\* what each file would hold: the metadata and the marginal notes carry violations,
\* and every register repeats the identifiers of the first
LoadDoc(file_path) ==
    IF file_path = meta_file THEN NestedMeta
    ELSE IF file_path = references_file THEN BaseReferences
    ELSE IF file_path = briefe_file THEN BaseBriefe
    ELSE IF file_path = edits_file THEN BaseEdits
    ELSE IF file_path = traditions_file THEN BaseTraditions
    ELSE IF file_path = marginalien_file
    THEN <<Root, Anchor("marginal", 1, "L9", "1", "1")>>
    ELSE BaseRegister

\* the command line with n registers, the k-th file to be parsed having status st[k]
LoadInput(n, st) ==
    LET registers == SubSeq(RegisterPaths, 1, n)
        order == MainFiles \o registers
    IN  [fs |-> [f \in Range(order) |->
                    [status |-> st[CHOOSE k \in 1..Len(order) : order[k] = f],
                     doc |-> LoadDoc(f)]],
         extra_registers |-> registers]

InitLoad ==
    \E n \in 0..MaxLoadRegisters :
        \E st \in [1..(Len(MainFiles) + n) -> {"ok", "syntax", "oserror"}] :
            Start(LoadInput(n, st))

\* the statements of the program run one after the other until it exits
SpecLoad == InitLoad /\ [][Next]_vars /\ WF_vars(Next)

\* some file of the command line cannot be parsed
SomeFileBroken == \E f \in Range(ParseOrder) : fs[f].status # "ok"

\* the first file of the command line that cannot be parsed
FirstBroken ==
    ParseOrder[CHOOSE k \in 1..Len(ParseOrder) :
                  /\ fs[ParseOrder[k]].status # "ok"
                  /\ \A h \in 1..(k-1) : fs[ParseOrder[h]].status = "ok"]

Exited == pc \in {"done", "aborted"}

\* C11: a violation is only ever recorded after every file of the command line
\* has been parsed; a run with a missing or malformed file never gets past the
\* parse step, records no violation, prints no annotation line and no success
\* line, and ends with the diagnostic of the first such file and exit status 1;
\* and a run that has recorded violations only ends at the report step.
C11_LoadErrorsPrecedeValidation ==
    /\ [](errors # <<>> => pc \notin {"parse", "aborted"} /\ ~SomeFileBroken)
    /\ [](SomeFileBroken =>
             /\ pc \in {"parse", "aborted"}
             /\ errors = <<>>
             /\ AnnotationLines = <<>>
             /\ SuccessLine \notin Range(output)
             /\ pc = "aborted" =>
                   /\ exit_code = 1
                   /\ Len(output) = 1
                   /\ output[1][2] = FirstBroken)
    /\ [][(errors # <<>> /\ ~Exited /\ Exited') => pc = "report"]_vars
    /\ (SomeFileBroken ~> (pc = "aborted" /\ exit_code = 1))
    /\ (~SomeFileBroken ~> pc = "done")

\* the second register is malformed: the run ends there, although the metadata
\* parsed before it holds a sender that no person definition matches
C11_Witness ==
    /\ pc = "aborted"
    /\ Len(extra_registers) = 2
    /\ fs[extra_registers[2]].status = "syntax"
    /\ FirstBroken = extra_registers[2]
    /\ MetaErrors(Tree(meta_file), meta_file, IndexSet(Tree(references_file), "personDef"),
                  IndexSet(Tree(references_file), "locationDef")) # <<>>
    /\ errors = <<>>
    /\ exit_code = 1
    /\ output = <<<<"Error parsing ", extra_registers[2]>>>>

-----------------------------------------------------------------------------
(* Two runs on the same files                                              *)

MaxTwiceElems == 2

\* the tradition goes on with a second page, a line, an intlink to it, an unknown app
TwiceTradKinds ==
    {IndexElem("page", 2, "2"), IndexElem("line", 2, "3"),
     Anchor("intlink", 2, "L1", "2", "3"), RefElem("app", 2, "a9")}

\* marginal notes on lines only the tradition holds, and a dangling link
TwiceMarginalKinds ==
    {Anchor("marginal", 1, "L1", "1", "2"), Anchor("marginal", 1, "L1", "2", "3"),
     Link(1, "k9", None)}

\* one register, or two registers holding the same entries
TwiceHosts ==
    {WithDoc(b, meta_file, m) :
        b \in {BaseInput, WithRegisters(<<BaseRegister, BaseRegister>>)},
        m \in {BaseMeta, NestedMeta}}

InitTwice ==
    \/ \E host \in TwiceHosts :
          \E kt, km \in 0..MaxTwiceElems :
              \E dt \in [1..kt -> TwiceTradKinds], dm \in [1..km -> TwiceMarginalKinds] :
                  Start(Extended(Extended(host, traditions_file, BaseTraditions, dt),
                                 marginalien_file, <<Root>>, dm))
    \/ \E input \in BrokenInputs : Start(input)

SpecTwice == InitTwice /\ [][NextTwice]_vars

\* what the first and the second invocation printed
PromptAt == CHOOSE k \in 1..Len(output) : output[k] = PromptLine
FirstRunOutput == SubSeq(output, 1, PromptAt - 1)
SecondRunOutput == SubSeq(output, PromptAt + 1, Len(output))

\* the check a violation record comes from, by its message: 1 registers, 2 metadata,
\* 3 transcriptions, 4 traditions, 5 intlinks, 6 marginal notes, 7 links
Stage(err) ==
    LET head == err.message[1]
    IN  IF head \in {"<", "Duplicate <"} THEN 1
        ELSE IF head \in {"Invalid sender ref: ", "Invalid receiver ref: ",
                          "Invalid location ref: "} THEN 2
        ELSE IF head = "Invalid letter reference: " THEN 3
        ELSE IF head \in {"Invalid hand ref: ", "Invalid edit ref: "}
                /\ err.message[3] = " in letter " THEN 3
        ELSE IF head = "Invalid letterTradition reference: " THEN 4
        ELSE IF head \in {"Invalid hand ref: ", "Invalid app ref: "}
                /\ err.message[3] = " in letterTradition " THEN 4
        ELSE IF head \in {"Invalid intlink letter=", "No pages known for letter=",
                          "Invalid page=", "Invalid line=", "intlink has line="} THEN 5
        ELSE IF head \in {"Invalid marginal letter reference: ",
                          "No pages/lines known for letter=",
                          "Invalid page reference: letter=",
                          "Invalid line reference: letter="} THEN 6
        ELSE IF head \in {"Invalid <link ref='", "Invalid <link subref='"} THEN 7
        ELSE 0

\* the files a check goes through, in order
StageFiles(stage) ==
    IF stage = 1 THEN extra_registers
    ELSE IF stage = 2 THEN <<meta_file>>
    ELSE IF stage = 3 THEN <<briefe_file>>
    ELSE IF stage = 4 THEN <<traditions_file>>
    ELSE IF stage = 5 THEN IntlinkOrder
    ELSE IF stage = 6 THEN <<marginalien_file>>
    ELSE LinkOrder

FilePos(err) ==
    CHOOSE k \in 1..Len(StageFiles(Stage(err))) : StageFiles(Stage(err))[k] = err.file

\* the tag of the blocks a block-wise check goes through
BlockTag(stage) ==
    IF stage = 2 THEN "letterDesc" ELSE IF stage = 3 THEN "letterText" ELSE "letterTradition"

\* two records of one check on one file that come from the same pass over its
\* elements: one findall loop, or the loops of one kind over blocks that do not nest
SamePass(a, b) ==
    IF Stage(a) = 1 THEN a.message[2] = b.message[2]
    ELSE IF Stage(a) \in {2, 3, 4}
    THEN /\ a.message[1] = b.message[1]
         /\ \A i, j \in Elems(a.file, BlockTag(Stage(a))) :
               ~IsDescendant(Tree(a.file), i, j)
    ELSE TRUE

\* the records are in the order of the checks, of the files within a check, and of
\* the elements within a pass over a file; entries come before subsections
InTraversalOrder ==
    \A i, j \in 1..Len(errors) :
        i < j =>
            LET a == errors[i]
                b == errors[j]
            IN  /\ Stage(a) >= 1
                /\ Stage(a) <= Stage(b)
                /\ Stage(a) = Stage(b) => FilePos(a) <= FilePos(b)
                /\ (Stage(a) = Stage(b) /\ a.file = b.file) =>
                      /\ SamePass(a, b) => a.line <= b.line
                      /\ (Stage(a) = 1 /\ a.message[2] = "subsection") =>
                            b.message[2] = "subsection"

\* C12: a second run on the same files prints exactly what the first run printed,
\* its violation records being the ones the first run printed, in the same order,
\* whichever order the location map is iterated in by either run; and at every
\* moment the records are in the order of the checks and of the elements visited.
C12_Determinism ==
    /\ InTraversalOrder
    /\ (pc \in {"done", "aborted"} /\ PromptLine \in Range(output)) =>
          /\ SecondRunOutput = FirstRunOutput
          /\ pc = "done" /\ errors # <<>> =>
                FirstRunOutput = [k \in 1..Len(errors) |-> ErrorLine(errors[k])]
          /\ pc = "done" /\ errors = <<>> => FirstRunOutput = <<SuccessLine>>

\* the second run has ended; the tradition map had two items to iterate over, and
\* violations of three checks were printed twice in the same order
C12_Witness ==
    /\ pc = "done"
    /\ PromptLine \in Range(output)
    /\ Cardinality(Items(letter_pages_trad)) = 2
    /\ Cardinality({Stage(errors[k]) : k \in 1..Len(errors)}) >= 3
    /\ \E i, j \in 1..Len(errors) :
          i < j /\ Stage(errors[i]) = Stage(errors[j]) /\ errors[i].line < errors[j].line
    /\ SecondRunOutput = FirstRunOutput
    /\ Len(FirstRunOutput) = Len(errors)

-----------------------------------------------------------------------------
(* Register accumulation                                                   *)

\* the position of a register on the command line
RegisterIndex(file_path) ==
    CHOOSE r \in 1..Len(extra_registers) : extra_registers[r] = file_path

\* the elements with this tag and the identifier of x that are processed before x:
\* in an earlier register, or earlier in the same one
EarlierOccurrences(tag, x) ==
    {y \in RegisterElems(tag) :
        /\ Tree(y[1])[y[2]].id = Tree(x[1])[x[2]].id
        /\ \/ RegisterIndex(y[1]) < RegisterIndex(x[1])
           \/ y[1] = x[1] /\ y[2] < x[2]}

\* how many of the violations recorded for element x carry this message
CountAt(x, message) ==
    Len(SelectSeq(ErrorsAt(x[1], x[2]), LAMBDA err : err.message = message))

Pool(tag) == IF tag = "kommentar" THEN global_kommentar_ids ELSE global_subsection_ids

\* C13: once all registers are gathered, the pool of each kind is the set of the
\* non-empty identifiers of that kind; an element raises 'across multiple registers'
\* once if an element of its kind with its identifier was processed before it and
\* not otherwise, and 'in this file' once if such an element is in its own register
\* and not otherwise (so a repeat inside a register raises both); an identifier used
\* by one commentary entry and one subsection raises neither; an element without
\* identifier raises 'missing @id' and nothing else.
C13_RegisterAccumulation ==
    GatherDone =>
        \A tag \in {"kommentar", "subsection"} :
            /\ Pool(tag) = {id \in {Tree(x[1])[x[2]].id : x \in RegisterElems(tag)} :
                               Truthy(id)}
            /\ \A x \in RegisterElems(tag) :
                  LET id == Tree(x[1])[x[2]].id
                      before == EarlierOccurrences(tag, x)
                  IN  IF Truthy(id)
                      THEN /\ CountAt(x, DupGlobalMsg(tag, id))
                                = (IF before # {} THEN 1 ELSE 0)
                           /\ CountAt(x, DupLocalMsg(tag, id))
                                = (IF \E y \in before : y[1] = x[1] THEN 1 ELSE 0)
                           /\ CountAt(x, MissingIdMsg(tag)) = 0
                      ELSE ErrorsAt(x[1], x[2])
                               = <<Err(x[1], x[2], MissingIdMsg(tag))>>
            /\ \A id \in Pool("kommentar") \cap Pool("subsection") :
                  (/\ Cardinality({x \in RegisterElems("kommentar") :
                                      Tree(x[1])[x[2]].id = id}) = 1
                   /\ Cardinality({x \in RegisterElems("subsection") :
                                      Tree(x[1])[x[2]].id = id}) = 1) =>
                      \A k \in 1..Len(errors) :
                          errors[k].message \notin
                              {DupLocalMsg(t, id) : t \in {"kommentar", "subsection"}}
                              \cup {DupGlobalMsg(t, id) : t \in {"kommentar", "subsection"}}

\* one register holds the commentary entry k1 twice and the subsection k1 once: the
\* second entry raised both duplicate violations, the subsection none, and k1 is in
\* both pools
C13_Witness ==
    /\ GatherDone
    /\ \E x, y \in RegisterElems("kommentar") :
          /\ x[1] = y[1] /\ x[2] < y[2]
          /\ Tree(x[1])[x[2]].id = "k1" /\ Tree(y[1])[y[2]].id = "k1"
          /\ CountAt(y, DupLocalMsg("kommentar", "k1")) = 1
          /\ CountAt(y, DupGlobalMsg("kommentar", "k1")) = 1
          /\ CountAt(x, DupGlobalMsg("kommentar", "k1")) = 0
    /\ \E z \in RegisterElems("subsection") :
          /\ Tree(z[1])[z[2]].id = "k1"
          /\ CountAt(z, DupGlobalMsg("subsection", "k1")) = 0
    /\ "k1" \in global_kommentar_ids \cap global_subsection_ids

-----------------------------------------------------------------------------
(* The scan of the transcriptions                                          *)

MaxScanElems == 3

\* transcriptions to scan: with or without a <document>, a first letter on page 1
ScanPrefixes ==
    {<<Root, Elem("document", 1)>>,
     <<Root, Elem("document", 1), LetterElem("letterText", 2, "L1"),
       IndexElem("page", 3, "1")>>,
     <<Root, Elem("letters", 1)>>}

\* letter blocks, page and line markers inside and outside them, with an index
\* that is absent, empty or not, and a second <document>
ScanKinds ==
    {LetterElem("letterText", 2, L) : L \in {None, "", "L2"}}
    \cup {IndexElem("page", 3, P) : P \in {None, "", "2"}}
    \cup {IndexElem("line", 3, l) : l \in {None, "", "1"}}
    \cup {IndexElem("line", 2, "3"), Elem("document", 1)}

InitScan ==
    \E prefix \in ScanPrefixes :
        \E k \in 0..MaxScanElems :
            \E d \in [1..k -> ScanKinds] :
                /\ WellFormed(prefix \o d)
                /\ Start(Extended(BaseInput, briefe_file, prefix, d))

SpecScan == InitScan /\ [][Next]_vars

\* the transcription map is built and not yet merged with the tradition map
ScanDone == pc \in {"build_trad", "merge"}

\* the elements the scan walks through: the first <document> and what is below it,
\* or the whole file when it has none
ScanWalk ==
    LET doc == Tree(briefe_file)
        docElems == FindAll(doc, 1, "document")
    IN  Iter(doc, IF docElems = <<>> THEN 1 ELSE Head(docElems))

ScanElem(k) == Tree(briefe_file)[ScanWalk[k]]

\* an attribute counts as carried when it is there (literal), or there and not empty
Carries(v, literal) == IF literal THEN v # None ELSE Truthy(v)

\* the walk positions before k of the letter blocks, and of the page markers that
\* carry an index
LetterSteps(k) == {h \in 1..(k-1) : ScanElem(h).tag = "letterText"}
PageSteps(k, literal) ==
    {h \in 1..(k-1) : ScanElem(h).tag = "page" /\ Carries(ScanElem(h).index, literal)}

Latest(steps) == CHOOSE h \in steps : \A g \in steps : g <= h

\* the letter of the most recently entered letter block, the index of the most
\* recent page marker that carries one
LetterAt(k) == IF LetterSteps(k) = {} THEN None ELSE ScanElem(Latest(LetterSteps(k))).letter
PageAt(k, literal) == ScanElem(Latest(PageSteps(k, literal))).index

\* the triples the walk is to record
Recorded(literal) ==
    {<<LetterAt(k), PageAt(k, literal), ScanElem(k).index>> :
        k \in {h \in 1..Len(ScanWalk) :
                  /\ ScanElem(h).tag = "line"
                  /\ Carries(ScanElem(h).index, literal)
                  /\ Truthy(LetterAt(h))
                  /\ PageSteps(h, literal) # {}}}

\* C14 as stated, a marker carrying an index whenever the attribute is there: fails
\* for index=""
C14_Original ==
    ScanDone => Triples(letter_pages_brief) = Recorded(TRUE)

\* C14: the scan records a line marker with a non-empty index as (L, P, l) exactly
\* when L is the letter of the most recently entered letter block of the walk and is
\* not empty, and P is the index of the most recent page marker with a non-empty
\* index; a new letter block replaces the letter and keeps the page; a page marker
\* or line whose index is absent or empty changes and records nothing; the state at
\* the end of the walk is that letter and that page.
C14_TranscriptionScan ==
    ScanDone =>
        /\ Triples(letter_pages_brief) = Recorded(FALSE)
        /\ LET last == BuildBriefState(Tree(briefe_file))
               end == Len(ScanWalk) + 1
           IN  /\ last.current_letter = LetterAt(end)
               /\ last.current_page
                    = (IF PageSteps(end, FALSE) = {} THEN None ELSE PageAt(end, FALSE))

\* a line of letter L2 before any page marker of its block, recorded under page 1 of
\* the block of L1 before it
C14_Witness ==
    /\ ScanDone
    /\ \E k \in 1..Len(ScanWalk) :
          /\ ScanElem(k).tag = "line"
          /\ ScanElem(k).index = "1"
          /\ LetterSteps(k) # {}
          /\ PageSteps(k, FALSE) # {}
          /\ Latest(PageSteps(k, FALSE)) > 1
          /\ LetterAt(k) = "L2"
          /\ PageAt(k, FALSE) = "1"
          /\ Latest(PageSteps(k, FALSE)) < Latest(LetterSteps(k))
          /\ ScanElem(Latest(PageSteps(k, FALSE)) - 1).letter = "L1"
    /\ <<"L2", "1", "1">> \in Triples(letter_pages_brief)
====
